---- MODULE Spec2Model ----
(***************************************************************************)
(* A model of elflib: the decoding of a 64-bit ELF object file             *)
(* (src/src/ctrl.rs), its string tables (src/src/data.rs) and its view     *)
(* enumerations (src/src/view.rs).                                         *)
(*                                                                         *)
(* Four specifications share the module:                                   *)
(*   SpecStrTab  StrTab::get and StrTab::str_vec on bounded byte buffers   *)
(*   SpecSym     the decode of a symbol's info and other bytes             *)
(*   SpecView    SHType::from, SHFLAGS::from and SID::from on raw codes    *)
(*   Spec        Elf::load on a family of byte-level files                 *)
(*                                                                         *)
(* A Rust String is modelled as the sequence of its chars' code points, a  *)
(* Vec<u8> as a sequence of numbers 0..255, Option<T> as a sequence of     *)
(* length 0 (None) or 1 (Some).                                            *)
(***************************************************************************)
EXTENDS Integers, Sequences, FiniteSets, TLC

VARIABLES
    \* ---- StrTab under test (SpecStrTab)
    tab,        \* StrTab.0, the Vec<u8> of the string table
    op,         \* the last method called on it: "new", "get" or "str_vec"
    arg,        \* the idx handed to the last get
    got,        \* the Option<String> the last get returned
    vec,        \* the Vec<String> the last str_vec returned
    \* ---- one symbol record's packed bytes under decode (SpecSym)
    info,       \* E64Sym.info
    other,      \* E64Sym.other
    bind,       \* SymBinding::load_from_info(info), <<>> before the decode
    sty,        \* SymType::load_from_info(info), <<>> before the decode
    visi,       \* SymVisi::load_from_other(other), <<>> before the decode
    \* ---- one raw code under conversion (SpecView)
    conv,       \* the conversion: "SHType", "SHFLAGS" or "SID"
    code,       \* the raw code: a u32 as its 4 bytes, a u16 as a number
    out,        \* Some(the value the conversion returned), None before the call
    \* ---- one run of Elf::load (Spec)
    mmap,       \* the mapped file, a sequence of bytes
    debug_assertions, \* whether the build checks debug_assert_eq!
    pc,         \* the stage the load is at, "done" once it has returned
    shi,        \* i of the section-header loop under way
    eidentview, \* EIdentView of Elf::load
    ehdr,       \* EHdrView
    sh_entries, \* Vec<E64Shdr>, the raw section header records
    shstrtab,   \* the section name StrTab
    shentries,  \* SHEntries, the resolved sections
    strtab,     \* StrTab of .strtab
    symtab,     \* SymTab of .symtab
    dynstr,     \* StrTab of .dynstr
    dynsym,     \* SymTab of .dynsym
    result      \* <<"Running">>, <<"Ok">>, <<"Err", e>> or <<"Panic", msg>>

strVars == <<tab, op, arg, got, vec>>

symVars == <<info, other, bind, sty, visi>>

viewVars == <<conv, code, out>>

loadVars == <<mmap, debug_assertions, pc, shi, eidentview, ehdr, sh_entries, shstrtab,
              shentries, strtab, symtab, dynstr, dynsym, result>>

vars == <<tab, op, arg, got, vec, info, other, bind, sty, visi, conv, code, out,
          mmap, debug_assertions, pc, shi, eidentview, ehdr, sh_entries, shstrtab,
          shentries, strtab, symtab, dynstr, dynsym, result>>

----------------------------------------------------------------------------
(* Option<T> *)

None == <<>>

Some(x) == <<x>>

----------------------------------------------------------------------------
(* src/src/data.rs: StrTab *)

\* `byte as char`: the char whose code point is the byte's value.
AsChar(b) == b

\* StrTab::empty
StrTab_empty == <<>>

\* StrTab::new
StrTab_new(v) == v

\* The for loop of StrTab::get: i runs from idx to len, stops at a zero byte.
RECURSIVE StrTab_get_loop(_, _, _)
StrTab_get_loop(t, i, s) ==
    IF i >= Len(t) THEN s
    ELSE IF t[i + 1] = 0 THEN s
    ELSE StrTab_get_loop(t, i + 1, Append(s, AsChar(t[i + 1])))

\* A get that accepts idx = len.
StrTab_get_OffByOne(t, idx) ==
    IF idx > Len(t) THEN None ELSE Some(StrTab_get_loop(t, idx, <<>>))

\* StrTab::get
StrTab_get(t, idx) ==
    IF idx >= Len(t) THEN None ELSE Some(StrTab_get_loop(t, idx, <<>>))

\* The for loop of StrTab::str_vec: i runs from 1 to len; a zero byte pushes
\* the string collected so far, what is collected at the end is dropped.
RECURSIVE StrTab_str_vec_loop(_, _, _, _)
StrTab_str_vec_loop(t, i, s, str_vec) ==
    IF i >= Len(t) THEN str_vec
    ELSE IF t[i + 1] = 0
         THEN StrTab_str_vec_loop(t, i + 1, <<>>, Append(str_vec, s))
         ELSE StrTab_str_vec_loop(t, i + 1, Append(s, AsChar(t[i + 1])), str_vec)

\* A str_vec that starts its scan at position 0.
StrTab_str_vec_FromZero(t) ==
    IF t = <<>> THEN <<>> ELSE StrTab_str_vec_loop(t, 0, <<>>, <<>>)

\* StrTab::str_vec
StrTab_str_vec(t) ==
    IF t = <<>> THEN <<>> ELSE StrTab_str_vec_loop(t, 1, <<>>, <<>>)

----------------------------------------------------------------------------
(* src/src/view.rs: the symbol sub-field decoders.  An enum value is a tuple
   of the variant's name and, for a variant with a field, the field. *)

\* A binding decode that has no OS-reserved range.
SymBinding_load_from_info_NoOS(i) ==
    LET val == i \div 16
    IN  CASE val = 0 -> <<"Local">>
          [] val = 1 -> <<"Global">>
          [] val = 2 -> <<"Weak">>
          [] OTHER -> <<"Proc", val>>

\* SymBinding::load_from_info: val = info >> 4
SymBinding_load_from_info(i) ==
    LET val == i \div 16
    IN  CASE val = 0 -> <<"Local">>
          [] val = 1 -> <<"Global">>
          [] val = 2 -> <<"Weak">>
          [] OTHER -> IF 10 <= val /\ val <= 12 THEN <<"OS", val>> ELSE <<"Proc", val>>

\* SymType::load_from_info: val = info & 0xf
SymType_load_from_info(i) ==
    LET val == i % 16
    IN  CASE val = 0 -> <<"NoType">>
          [] val = 1 -> <<"Object">>
          [] val = 2 -> <<"Func">>
          [] val = 3 -> <<"Section">>
          [] val = 4 -> <<"File">>
          [] val = 5 -> <<"Common">>
          [] val = 6 -> <<"TLS">>
          [] OTHER -> IF 10 <= val /\ val <= 12 THEN <<"OS", val>> ELSE <<"Proc", val>>

\* enum SymVisi, #[repr(u8)]: the variant of each discriminant 0..3.
SymVisi_variant(d) ==
    CASE d = 0 -> <<"Default">>
      [] d = 1 -> <<"Internal">>
      [] d = 2 -> <<"Hidden">>
      [] d = 3 -> <<"Protected">>

\* SymVisi::load_from_other: transmute(other & 0x3); every value 0..3 is a
\* discriminant of SymVisi, so the transmute is defined.
SymVisi_load_from_other(o) == SymVisi_variant(o % 4)

----------------------------------------------------------------------------
(* src/src/view.rs: the enumerations of the header and section views *)

\* transmute of the number d to a fieldless enum whose discriminants are the
\* domain of variants.  A discriminant of the enum gives its variant; any
\* other number is undefined behaviour: the value may then act as any variant,
\* or as one that matches no variant (<<"?", d>>).
Transmute(variants, d) ==
    IF d \in DOMAIN variants THEN {<<variants[d]>>}
    ELSE {<<variants[k]>> : k \in DOMAIN variants} \cup {<<"?", d>>}

\* enum EIClass
EIClass == 0 :> "Invalid" @@ 1 :> "Bit32" @@ 2 :> "Bit64"

\* #[derive(Debug)] of EIClass: the name of the variant; of a value that is no
\* variant the output is undefined.
EIClass_Debug(c) == IF c[1] = "?" THEN <<"?">> ELSE <<c[1]>>

\* enum EIData
EIData == 0 :> "Invalid" @@ 1 :> "LSB" @@ 2 :> "MSB"

\* enum EType, #[repr(u16)]
EType ==
    0 :> "None" @@ 1 :> "REL" @@ 2 :> "EXEC" @@ 3 :> "DYN" @@ 4 :> "CORE"
    @@ 65024 :> "LOOS" @@ 65279 :> "HIOS" @@ 65280 :> "LOPROC" @@ 65535 :> "HIPROC"

\* enum EMachine, #[repr(u16)]
EMachine ==
    0 :> "None" @@ 2 :> "SPARC" @@ 3 :> "_386" @@ 7 :> "_860" @@ 8 :> "MIPS"
    @@ 19 :> "_960" @@ 20 :> "PPC" @@ 21 :> "PPC64" @@ 50 :> "IA64"
    @@ 51 :> "MIPSX" @@ 62 :> "X86_64" @@ 91 :> "PJ"

\* A mapping whose OS range stops one value short.
SID_from_ShortOS(val) ==
    CASE val = 0 -> <<"Undef">>
      [] val = 65521 -> <<"Abs">>
      [] val = 65522 -> <<"Common">>
      [] val = 65535 -> <<"XIndex">>
      [] OTHER ->
            IF val >= 65280 /\ val <= 65311 THEN <<"Proc", val>>
            ELSE IF val >= 65312 /\ val < 65343 THEN <<"OS", val>>
            ELSE <<"Normal", val>>

\* impl From<u16> for SID
SID_from(val) ==
    CASE val = 0 -> <<"Undef">>
      [] val = 65521 -> <<"Abs">>
      [] val = 65522 -> <<"Common">>
      [] val = 65535 -> <<"XIndex">>
      [] OTHER ->
            IF val >= 65280 /\ val <= 65311 THEN <<"Proc", val>>
            ELSE IF val >= 65312 /\ val <= 65343 THEN <<"OS", val>>
            ELSE <<"Normal", val>>

\* impl Into<usize> for SID
SID_into_usize(sid) ==
    CASE sid[1] = "Undef" -> 0
      [] sid[1] = "Proc" -> sid[2]
      [] sid[1] = "OS" -> sid[2]
      [] sid[1] = "Abs" -> 65521
      [] sid[1] = "Common" -> 65522
      [] sid[1] = "XIndex" -> 65535
      [] sid[1] = "Normal" -> sid[2]

\* A u32 is kept as its 4 little-endian bytes where its full width matters
\* (section type and flags); GeU32(a, b) is a >= b, LeU32(a, b) is a <= b.
RECURSIVE CmpBytes(_, _, _)
CmpBytes(a, b, k) ==
    IF k = 0 THEN 0
    ELSE IF a[k] > b[k] THEN 1
    ELSE IF a[k] < b[k] THEN -1
    ELSE CmpBytes(a, b, k - 1)

GeU32(a, b) == CmpBytes(a, b, 4) >= 0

LeU32(a, b) == CmpBytes(a, b, 4) <= 0

\* x & y of two bytes
RECURSIVE ByteAnd(_, _, _)
ByteAnd(x, y, k) ==
    IF k = 0 THEN 0
    ELSE (x % 2) * (y % 2) + 2 * ByteAnd(x \div 2, y \div 2, k - 1)

\* a & b of two u32
AndU32(a, b) == [k \in 1..4 |-> ByteAnd(a[k], b[k], 8)]

\* `x as u8` of a u32: its lowest byte
U32_as_u8(a) == a[1]

\* `x > 0` of a u32
NonZeroU32(a) == \E k \in 1..4 : a[k] # 0

\* enum SHType in declaration order: the unit variants, then SPECOS, SPECPROC
\* and SPECUSER, which carry a u32.
SHTypeUnit ==
    <<"NULL", "PROGBITS", "SYMtab", "STRtab", "RELA", "HASH", "DYNAMIC", "NOTE",
      "NOBITS", "REL", "SHLIB", "INITARRAY", "FINIARRAY", "PREINITARRAY", "GROUP",
      "SYMtabSHNDX">>

SHTypeField == <<"SPECOS", "SPECPROC", "SPECUSER">>

\* transmute::<u64, SHType>(val as u64), val the 4 bytes of a u32.  SHType has
\* no repr: with the layout rustc gives it (a 4-byte tag, then the u32 field)
\* the tag is val and the field is the upper half of the u64, zero.  A tag of
\* 19 or more is no variant: undefined behaviour, any variant or none.
SHType_transmute(val) ==
    LET tag == IF val[2] = 0 /\ val[3] = 0 /\ val[4] = 0 THEN val[1] ELSE 255
    IN  IF tag < 16 THEN {<<SHTypeUnit[tag + 1]>>}
        ELSE IF tag < 19 THEN {<<SHTypeField[tag - 15], <<0, 0, 0, 0>>>>}
        ELSE {<<SHTypeUnit[k]>> : k \in 1..16}
             \cup {<<SHTypeField[k], <<0, 0, 0, 0>>>> : k \in 1..3}
             \cup {<<"?", val>>}

\* impl From<u32> for SHType: the set of values the call can return
SHType_from(val) ==
    IF GeU32(val, <<0, 0, 0, 96>>) /\ LeU32(val, <<255, 255, 255, 111>>)
    THEN {<<"SPECOS", val>>}
    ELSE IF GeU32(val, <<0, 0, 0, 112>>) /\ LeU32(val, <<255, 255, 255, 127>>)
    THEN {<<"SPECPROC", val>>}
    ELSE IF GeU32(val, <<0, 0, 0, 128>>)
    THEN {<<"SPECUSER", val>>}
    ELSE SHType_transmute(val)

\* The bits SHFLAGS::from tests one after the other, as u32, with their tokens.
SHFlagBits ==
    << <<<<1, 0, 0, 0>>, "Write">>, <<<<2, 0, 0, 0>>, "Alloc">>,
       <<<<4, 0, 0, 0>>, "ExecInstr">>, <<<<16, 0, 0, 0>>, "Merge">>,
       <<<<32, 0, 0, 0>>, "StringS">>, <<<<64, 0, 0, 0>>, "InfoLink">>,
       <<<<128, 0, 0, 0>>, "LinkOrder">>, <<<<0, 1, 0, 0>>, "OsNonconforming">>,
       <<<<0, 2, 0, 0>>, "Group">>, <<<<0, 4, 0, 0>>, "TLS">> >>

RECURSIVE SHFLAGS_from_bits(_, _)
SHFLAGS_from_bits(val, k) ==
    IF k > Len(SHFlagBits) THEN <<>>
    ELSE (IF NonZeroU32(AndU32(val, SHFlagBits[k][1]))
          THEN << <<SHFlagBits[k][2]>> >> ELSE <<>>)
         \o SHFLAGS_from_bits(val, k + 1)

\* impl From<u32> for SHFLAGS: the Vec of flag tokens
SHFLAGS_from(val) ==
    LET os_spec == U32_as_u8(AndU32(val, <<0, 0, 240, 15>>))
        proc_spec == U32_as_u8(AndU32(val, <<0, 0, 0, 240>>))
    IN  SHFLAGS_from_bits(val, 1)
        \o (IF os_spec > 0 THEN << <<"OS", os_spec>> >> ELSE <<>>)
        \o (IF proc_spec > 0 THEN << <<"Proc", proc_spec>> >> ELSE <<>>)

\* SHEntries::get: the first entry with the name, as an Option
RECURSIVE SHEntries_get_loop(_, _, _)
SHEntries_get_loop(entries, name, k) ==
    IF k > Len(entries) THEN None
    ELSE IF entries[k].name = name THEN Some(entries[k])
    ELSE SHEntries_get_loop(entries, name, k + 1)

\* A lookup that returns the last entry with the name.
SHEntries_get_Last(entries, name) ==
    LET hits == {k \in 1..Len(entries) : entries[k].name = name}
    IN  IF hits = {} THEN None
        ELSE Some(entries[CHOOSE k \in hits : \A j \in hits : j <= k])

SHEntries_get(entries, name) == SHEntries_get_loop(entries, name, 1)

----------------------------------------------------------------------------
(* src/src/data.rs: the raw records, as bincode with fixint encoding reads
   them: every field at its fixed offset, little-endian, in declaration
   order.  A field is a number, below 2^31 in every file of the model; the
   section type and flags are kept as bytes. *)

RECURSIVE uint(_, _, _)
uint(b, off, w) ==
    IF w = 0 THEN 0 ELSE b[off + 1] + 256 * uint(b, off + 1, w - 1)

\* &mmap[from..end]: in bounds, and its bytes
SliceOk(m, from, end) == from <= end /\ end <= Len(m)

Slice(m, from, end) == [j \in 1..(end - from) |-> m[from + j]]

\* size_of of the four records
SizeOfEIdent == 16

SizeOfE64Hdr == 64

SizeOfE64Shdr == 64

SizeOfE64Sym == 24

\* struct EIdent
EIdent(b) ==
    [magic_nums |-> Slice(b, 0, 4), class |-> b[5], data |-> b[6], version |-> b[7],
     osabi |-> b[8], abiversion |-> b[9], nident |-> b[16]]

\* struct E64Hdr
E64Hdr(b) ==
    [ident |-> EIdent(b), ty |-> uint(b, 16, 2), machine |-> uint(b, 18, 2),
     version |-> uint(b, 20, 4), entry |-> uint(b, 24, 8), phoff |-> uint(b, 32, 8),
     shoff |-> uint(b, 40, 8), flags |-> uint(b, 48, 4), ehsize |-> uint(b, 52, 2),
     ph_tab_entry_size |-> uint(b, 54, 2), ph_tab_entry_num |-> uint(b, 56, 2),
     sh_tab_entry_size |-> uint(b, 58, 2), sh_tab_entry_num |-> uint(b, 60, 2),
     sh_strtab_idx |-> uint(b, 62, 2)]

\* struct E64Shdr
E64Shdr(b) ==
    [name |-> uint(b, 0, 4), ty |-> Slice(b, 4, 8), flags |-> Slice(b, 8, 16),
     addr |-> uint(b, 16, 8), offset |-> uint(b, 24, 8), size |-> uint(b, 32, 8),
     link |-> uint(b, 40, 4), info |-> uint(b, 44, 4), addr_align |-> uint(b, 48, 8),
     ent_size |-> uint(b, 56, 8)]

\* struct E64Sym
E64Sym(b) ==
    [name |-> uint(b, 0, 4), info |-> b[5], other |-> b[6], shndx |-> uint(b, 6, 2),
     value |-> uint(b, 8, 8), size |-> uint(b, 16, 8)]

\* config.deserialize(slice) of a record of `size` bytes, config being
\* options().with_fixint_encoding(): an error when the slice ends before the
\* record does, and (bincode's options() reject trailing bytes) when bytes are
\* left over.
Deserialize(slice, size) ==
    IF Len(slice) < size THEN <<"Err", "UnexpectedEof">>
    ELSE IF Len(slice) > size THEN <<"Err", "TrailingBytes">>
    ELSE <<"Ok">>

----------------------------------------------------------------------------
(* src/src/ctrl.rs: the helpers of Elf::load.  A helper that can fail returns
   <<"Ok", value>>, <<"Err", error>> (a Result::Err handed back with `?`) or
   <<"Panic", message>> (a failed slice index, unwrap, assertion or
   unreachable!). *)

\* The section names load_64_from_mmap asks for, as Strings.
DotStrtab == <<46, 115, 116, 114, 116, 97, 98>>

DotSymtab == <<46, 115, 121, 109, 116, 97, 98>>

DotDynstr == <<46, 100, 121, 110, 115, 116, 114>>

DotDynsym == <<46, 100, 121, 110, 115, 121, 109>>

DotBss == <<46, 98, 115, 115>>

\* impl Into<EIdentView> for EIdent: the views the two transmutes can give
EIdent_into(eident) ==
    {[magic_nums |-> eident.magic_nums, class |-> c, data |-> d,
      version |-> eident.version, osabi |-> eident.osabi,
      abiversion |-> eident.abiversion, nident |-> eident.nident] :
        c \in Transmute(EIClass, eident.class), d \in Transmute(EIData, eident.data)}

\* impl Into<EHdrView> for E64Hdr: the views the transmutes can give
E64Hdr_into(hdr) ==
    {[ident |-> id, ty |-> ty, machine |-> machine, version |-> hdr.version,
      entry |-> hdr.entry, prog_hdr_offset |-> hdr.phoff,
      section_hdr_offset |-> hdr.shoff, flags |-> hdr.flags,
      elf_hdr_sz |-> hdr.ehsize, prog_hdr_tab_ent_sz |-> hdr.ph_tab_entry_size,
      prog_hdr_tab_ent_num |-> hdr.ph_tab_entry_num,
      section_hdr_ent_sz |-> hdr.sh_tab_entry_size,
      section_hdr_ent_num |-> hdr.sh_tab_entry_num,
      section_str_tab_idx |-> SID_from(hdr.sh_strtab_idx)] :
        id \in EIdent_into(hdr.ident), ty \in Transmute(EType, hdr.ty),
        machine \in Transmute(EMachine, hdr.machine)}

\* A test for a section header table that looks at the entry count.
HasSectionTable_ByCount(hdr) == hdr.section_hdr_ent_num > 0

\* ctrl.rs 74-76: `if shoff > 0`
HasSectionTable(hdr) == hdr.section_hdr_offset > 0

\* A choice of the name table record that takes the escape from record 0's info.
shstr_tab_idx_EscapeInfo(idx, entries) ==
    IF idx = <<"XIndex">>
    THEN (IF Len(entries) = 0 THEN -1 ELSE entries[1].info)
    ELSE SID_into_usize(idx)

\* ctrl.rs 90-95: the index of the record of the section name table, -1 when
\* sh_entries[0] itself does not exist
shstr_tab_idx(idx, entries) ==
    IF idx = <<"XIndex">>
    THEN (IF Len(entries) = 0 THEN -1 ELSE entries[1].link)
    ELSE SID_into_usize(idx)

\* A section view whose name is read one byte further.
SHdrView_NameOffByOne(entry, ty, names) ==
    LET name == StrTab_get(names, entry.name + 1)
    IN  IF name = None THEN <<"Panic", "unwrap on None">>
        ELSE <<"Ok", [name |-> name[1], ty |-> ty, flags |-> SHFLAGS_from(Slice(entry.flags, 0, 4)),
                      addr |-> entry.addr, offset |-> entry.offset, size |-> entry.size,
                      link |-> entry.link, info |-> entry.info,
                      addr_align |-> entry.addr_align, ent_size |-> entry.ent_size]>>

\* ctrl.rs 106-121: the view of one record, ty being the SHType::from taken;
\* `entry.flags() as u32` is the low 4 bytes of the flags
SHdrView(entry, ty, names) ==
    LET name == StrTab_get(names, entry.name)
    IN  IF name = None THEN <<"Panic", "unwrap on None">>
        ELSE <<"Ok", [name |-> name[1], ty |-> ty, flags |-> SHFLAGS_from(Slice(entry.flags, 0, 4)),
                      addr |-> entry.addr, offset |-> entry.offset, size |-> entry.size,
                      link |-> entry.link, info |-> entry.info,
                      addr_align |-> entry.addr_align, ent_size |-> entry.ent_size]>>

\* fn load_strtab_from_sh
load_strtab_from_sh(entries, secname, m) ==
    LET sh == SHEntries_get(entries, secname)
    IN  IF sh = None THEN <<"Ok", StrTab_empty>>
        ELSE LET sec_offset == sh[1].offset
                 sec_size == sh[1].size
             IN  IF ~SliceOk(m, sec_offset, sec_offset + sec_size)
                 THEN <<"Panic", "slice index">>
                 ELSE <<"Ok", StrTab_new(Slice(m, sec_offset, sec_offset + sec_size))>>

\* A value interpretation that looks at the symbol's own type.
SymValue_BySymType(ety, shndx, symty, value) ==
    CASE ety = <<"REL">> ->
            IF symty = <<"Common">> THEN <<"Alignment", value>>
            ELSE <<"SectionOffset", value>>
      [] ety \in {<<"EXEC">>, <<"DYN">>} -> <<"VirAddr", value>>
      [] OTHER -> <<"unreachable">>

\* ctrl.rs 245-257: the match on the file type
SymValue(ety, shndx, symty, value) ==
    CASE ety = <<"REL">> ->
            IF shndx = <<"Common">> THEN <<"Alignment", value>>
            ELSE <<"SectionOffset", value>>
      [] ety \in {<<"EXEC">>, <<"DYN">>} -> <<"VirAddr", value>>
      [] OTHER -> <<"unreachable">>

\* Option<String>::unwrap_or_default
unwrap_or_default(o) == IF o = None THEN <<>> ELSE o[1]

\* ctrl.rs 233-270: the loop over the symbol records
RECURSIVE load_sym64tab_loop(_, _, _, _, _, _, _)
load_sym64tab_loop(k, sym_num, sec_off, names, ety, m, symentries) ==
    IF k >= sym_num THEN <<"Ok", symentries>>
    ELSE
      LET from == sec_off + k * SizeOfE64Sym
          end == sec_off + (k + 1) * SizeOfE64Sym
      IN  IF ~SliceOk(m, from, end) THEN <<"Panic", "slice index">>
          ELSE IF Deserialize(Slice(m, from, end), SizeOfE64Sym)[1] = "Err"
          THEN Deserialize(Slice(m, from, end), SizeOfE64Sym)
          ELSE
            LET sym == E64Sym(Slice(m, from, end))
                shndx == SID_from(sym.shndx)
                symty == SymType_load_from_info(sym.info)
                value == SymValue(ety, shndx, symty, sym.value)
                symview == [name |-> unwrap_or_default(StrTab_get(names, sym.name)),
                            bind |-> SymBinding_load_from_info(sym.info),
                            ty |-> symty,
                            visi |-> SymVisi_load_from_other(sym.other),
                            shndx |-> shndx,
                            value |-> value,
                            size |-> sym.size]
            IN  IF value = <<"unreachable">> THEN <<"Panic", "unreachable">>
                ELSE load_sym64tab_loop(k + 1, sym_num, sec_off, names, ety, m,
                                        Append(symentries, symview))

\* A load_sym64tab_from_sh that fails when the section is absent.
load_sym64tab_from_sh_MissingIsError(entries, secname, names, ety, m, debug) ==
    LET sh == SHEntries_get(entries, secname)
    IN  IF sh = None THEN <<"Err", "no such section">>
        ELSE IF debug /\ SizeOfE64Sym # sh[1].ent_size
        THEN <<"Panic", "assertion failed">>
        ELSE load_sym64tab_loop(0, sh[1].size \div SizeOfE64Sym, sh[1].offset,
                                names, ety, m, <<>>)

\* fn load_sym64tab_from_sh; debug is whether debug_assert_eq! is compiled in
load_sym64tab_from_sh(entries, secname, names, ety, m, debug) ==
    LET sh == SHEntries_get(entries, secname)
    IN  IF sh = None THEN <<"Ok", <<>>>>
        ELSE IF debug /\ SizeOfE64Sym # sh[1].ent_size
        THEN <<"Panic", "assertion failed">>
        ELSE load_sym64tab_loop(0, sh[1].size \div SizeOfE64Sym, sh[1].offset,
                                names, ety, m, <<>>)

----------------------------------------------------------------------------
(* The files Elf::load is run on.  A file is laid out as: the 64-byte header;
   the section name table at 64; the data of .strtab at 118 and of .dynstr at
   124; the symbol records of .symtab from 128, those of .dynsym after them;
   then the section header records, 64 bytes each, record 0 being the null
   section.  The parameters of File choose the header fields and the sections
   and symbols the file holds. *)

RECURSIVE LE(_, _)
LE(n, w) == IF w = 0 THEN <<>> ELSE <<n % 256>> \o LE(n \div 256, w - 1)

Zeros(n) == [j \in 1..n |-> 0]

\* "\0.shstrtab\0.strtab\0.symtab\0.dynstr\0.dynsym\0.bss\0.text\0"
NamesBlob ==
    <<0>> \o <<46, 115, 104, 115, 116, 114, 116, 97, 98, 0>>
          \o <<46, 115, 116, 114, 116, 97, 98, 0>>
          \o <<46, 115, 121, 109, 116, 97, 98, 0>>
          \o <<46, 100, 121, 110, 115, 116, 114, 0>>
          \o <<46, 100, 121, 110, 115, 121, 109, 0>>
          \o <<46, 98, 115, 115, 0>>
          \o <<46, 116, 101, 120, 116, 0>>

\* "\0a\0bc\0" and "\0d\0"
StrBlob == <<0, 97, 0, 98, 99, 0>>

DynstrBlob == <<0, 100, 0>>

NameOff ==
    [shstrtab |-> 1, strtab |-> 11, symtab |-> 19, dynstr |-> 27, dynsym |-> 35,
     bss |-> 43, text |-> 48]

RECURSIVE IndexOf(_, _, _)
IndexOf(seq, x, k) ==
    IF k > Len(seq) THEN 0 ELSE IF seq[k] = x THEN k ELSE IndexOf(seq, x, k + 1)

RECURSIVE Flatten(_)
Flatten(ss) == IF ss = <<>> THEN <<>> ELSE Head(ss) \o Flatten(Tail(ss))

SymBytes(k) ==
    LE(k.name, 4) \o <<k.info, k.other>> \o LE(k.shndx, 2) \o LE(k.value, 8) \o LE(k.size, 8)

ShdrBytes(r) ==
    LE(r.name, 4) \o LE(r.ty, 4) \o LE(r.flags, 8) \o LE(r.addr, 8) \o LE(r.offset, 8)
    \o LE(r.size, 8) \o LE(r.link, 4) \o LE(r.info, 4) \o LE(r.addr_align, 8)
    \o LE(r.ent_size, 8)

\* The section header record of the section called key in a file of parameters p.
ShdrOf(p, key, pos) ==
    LET symOff == 128
        dynOff == 128 + 24 * Len(p.syms)
        end == dynOff + 24 * Len(p.dynsyms)
        nm == IF pos = p.badname THEN 200 ELSE NameOff[key]
        rec(ty, flags, offset, size, link, entsize) ==
            [name |-> nm, ty |-> ty, flags |-> flags, addr |-> 0, offset |-> offset,
             size |-> size, link |-> link, info |-> pos, addr_align |-> 1,
             ent_size |-> entsize]
    IN  CASE key = "shstrtab" -> rec(3, 32, 64, Len(NamesBlob), 0, 0)
          [] key = "strtab" -> rec(3, 0, 118, Len(StrBlob), 0, 0)
          [] key = "dynstr" -> rec(3, 2, 124, Len(DynstrBlob), 0, 0)
          [] key = "symtab" ->
                rec(2, 0, symOff, 24 * Len(p.syms) + p.symslack,
                    IndexOf(p.secs, "strtab", 1), p.symentsize)
          [] key = "dynsym" ->
                rec(11, 2, dynOff, 24 * Len(p.dynsyms),
                    IndexOf(p.secs, "dynstr", 1), p.symentsize)
          [] key = "bss" -> rec(8, 3, end, p.bsssize, 0, 0)
          [] key = "text" -> rec(1, 6, 64, 4, 0, 0)

\* The bytes of the file of parameters p.
File(p) ==
    LET nsec == Len(p.secs) + 1
        shoff == 128 + 24 * (Len(p.syms) + Len(p.dynsyms))
        strndx == IndexOf(p.secs, "shstrtab", 1)
        null == [name |-> 0, ty |-> 0, flags |-> 0, addr |-> 0, offset |-> 0, size |-> 0,
                 link |-> IF p.link0 = -1 THEN strndx ELSE p.link0,
                 info |-> IF p.link0 = -1 THEN 0 ELSE strndx,
                 addr_align |-> 0, ent_size |-> 0]
        header ==
            <<127, 69, 76, 70, p.class, 1, 1, 0, 0>> \o Zeros(6) \o <<16>>
            \o LE(p.ty, 2) \o LE(62, 2) \o LE(1, 4) \o LE(0, 8) \o LE(0, 8)
            \o LE(IF p.shoff0 THEN 0 ELSE shoff, 8) \o LE(0, 4) \o LE(64, 2)
            \o LE(56, 2) \o LE(0, 2) \o LE(p.shentsize, 2)
            \o LE(IF p.shnum = -1 THEN nsec ELSE p.shnum, 2)
            \o LE(IF p.shstrndx = -1 THEN strndx ELSE p.shstrndx, 2)
        all ==
            header \o NamesBlob \o StrBlob \o DynstrBlob \o Zeros(1)
            \o Flatten([k \in 1..Len(p.syms) |-> SymBytes(p.syms[k])])
            \o Flatten([k \in 1..Len(p.dynsyms) |-> SymBytes(p.dynsyms[k])])
            \o ShdrBytes(null)
            \o Flatten([k \in 1..Len(p.secs) |-> ShdrBytes(ShdrOf(p, p.secs[k], k))])
    IN  IF p.len = -1 THEN all ELSE SubSeq(all, 1, p.len)

----------------------------------------------------------------------------
(* SpecStrTab: the StrTab methods on every buffer up to MaxLen bytes *)

MaxLen == 5

\* The byte values the buffers are made of: NUL, 'a', 'b'.
BufBytes == {0, 97, 98}

RECURSIVE SeqsUpTo(_, _)
SeqsUpTo(S, n) ==
    IF n = 0 THEN {<<>>}
    ELSE LET shorter == SeqsUpTo(S, n - 1)
         IN  shorter \cup {Append(s, x) : s \in {q \in shorter : Len(q) = n - 1}, x \in S}

Buffers == SeqsUpTo(BufBytes, MaxLen)

\* The variables of the other specifications, at rest.
StrIdle == tab = <<>> /\ op = "idle" /\ arg = 0 /\ got = <<>> /\ vec = <<>>

SymIdle == info = 0 /\ other = 0 /\ bind = <<>> /\ sty = <<>> /\ visi = <<>>

ViewIdle == conv = "idle" /\ code = 0 /\ out = <<>>

LoadIdle ==
    /\ mmap = <<>> /\ debug_assertions = FALSE /\ pc = "idle" /\ shi = 0
    /\ eidentview = <<>> /\ ehdr = <<>> /\ sh_entries = <<>> /\ shstrtab = <<>>
    /\ shentries = <<>> /\ strtab = <<>> /\ symtab = <<>> /\ dynstr = <<>>
    /\ dynsym = <<>> /\ result = <<"Idle">>

\* let t = StrTab::new(buf)
InitStrTab ==
    /\ tab \in {StrTab_new(b) : b \in Buffers}
    /\ op = "new"
    /\ arg = 0
    /\ got = None
    /\ vec = <<>>
    /\ SymIdle
    /\ ViewIdle
    /\ LoadIdle

\* t.get(idx), idx up to two past the end of the buffer
Get(idx) ==
    /\ got' = StrTab_get(tab, idx)
    /\ arg' = idx
    /\ op' = "get"
    /\ UNCHANGED <<tab, vec>>
    /\ UNCHANGED symVars
    /\ UNCHANGED viewVars
    /\ UNCHANGED loadVars

\* t.str_vec()
StrVec ==
    /\ vec' = StrTab_str_vec(tab)
    /\ op' = "str_vec"
    /\ UNCHANGED <<tab, arg, got>>
    /\ UNCHANGED symVars
    /\ UNCHANGED viewVars
    /\ UNCHANGED loadVars

NextStrTab ==
    \/ \E idx \in 0..(MaxLen + 2) : Get(idx)
    \/ StrVec

SpecStrTab == InitStrTab /\ [][NextStrTab]_vars

----------------------------------------------------------------------------
(* Spec: Elf::load, stage by stage, on the files of Files *)

MaxSyms == 2

\* The symbol records the symbol tables are made of: a Global Func "a" in
\* section 1; a Global Object "bc" in Common; a Local symbol of type Common in
\* Abs whose name offset lies outside the string table.
SymKinds ==
    {[name |-> 1, info |-> 18, other |-> 0, shndx |-> 1, value |-> 7, size |-> 4],
     [name |-> 3, info |-> 17, other |-> 2, shndx |-> 65522, value |-> 8, size |-> 0],
     [name |-> 99, info |-> 5, other |-> 3, shndx |-> 65521, value |-> 9, size |-> 1]}

SymSeqs == SeqsUpTo(SymKinds, MaxSyms)

OneDynsym == <<[name |-> 1, info |-> 34, other |-> 1, shndx |-> 0, value |-> 5, size |-> 2]>>

\* The section lists of the files (the null section comes before them).
AllSecs == <<"text", "shstrtab", "strtab", "symtab", "dynstr", "dynsym", "bss">>

SecLists ==
    {<<"shstrtab">>,
     <<"text", "shstrtab", "strtab", "symtab">>,
     <<"shstrtab", "dynstr", "dynsym">>,
     <<"shstrtab", "symtab", "dynsym">>,
     AllSecs}

\* A section list in which two names occur twice.
TwiceSecs == <<"shstrtab", "dynstr", "strtab", "symtab", "strtab", "dynstr">>

Base ==
    [class |-> 2, ty |-> 1, shoff0 |-> FALSE, shentsize |-> 64, shnum |-> -1,
     shstrndx |-> -1, link0 |-> 0, secs |-> AllSecs, syms |-> <<>>,
     dynsyms |-> OneDynsym, symentsize |-> 24, symslack |-> 0, bsssize |-> 0,
     badname |-> 0, len |-> -1]

\* Every class byte of interest.
ClassParams ==
    {[Base EXCEPT !.class = c, !.shoff0 = z] : c \in {0, 1, 2, 3, 255}, z \in BOOLEAN}

\* No section header table: the other section fields of the header are free.
NoShParams ==
    {[Base EXCEPT !.shoff0 = TRUE, !.shentsize = es, !.shnum = n, !.shstrndx = x,
                  !.ty = t] :
        es \in {0, 64, 65}, n \in {-1, 0, 65535}, x \in {-1, 0, 65535},
        t \in {0, 1, 2, 5}}

\* The index of the section name table, direct and escaped.
StrNdxParams ==
    {[Base EXCEPT !.shstrndx = x, !.link0 = l, !.secs = ss, !.shnum = n] :
        x \in {-1, 0, 1, 3, 8, 65521, 65280, 65312, 65535},
        l \in {-1, 0, 2, 3, 99}, ss \in {<<"shstrtab">>, AllSecs}, n \in {-1, 0}}

\* The symbol tables: file type, sections present, symbols.
SymParams ==
    {[Base EXCEPT !.ty = t, !.secs = ss, !.syms = sy] :
        t \in {1, 2, 3}, ss \in SecLists, sy \in SymSeqs}
    \cup {[Base EXCEPT !.ty = t, !.secs = ss, !.syms = sy] :
        t \in {0, 4, 5}, ss \in SecLists, sy \in SeqsUpTo(SymKinds, 1)}
    \cup {[Base EXCEPT !.ty = t, !.secs = TwiceSecs, !.syms = sy] :
        t \in {1, 2}, sy \in SeqsUpTo(SymKinds, 1)}

\* Malformed files: entry sizes, sizes, name offsets, truncation.
MiscParams ==
    {[Base EXCEPT !.shentsize = es, !.syms = sy] :
        es \in {0, 63, 65, 128}, sy \in {<<>>}}
    \cup {[Base EXCEPT !.symentsize = es, !.symslack = sl, !.syms = sy, !.ty = 2] :
        es \in {0, 16, 24, 32}, sl \in {0, 5, 30}, sy \in SymSeqs}
    \cup {[Base EXCEPT !.badname = b, !.bsssize = z] : b \in 0..3, z \in {0, 1}}
    \cup {[Base EXCEPT !.len = n] : n \in {1, 15, 16, 63, 64, 100, 120, 140, 200, 599}}

Params == ClassParams \cup NoShParams \cup StrNdxParams \cup SymParams \cup MiscParams

Running == <<"Running">>

\* The file has been opened and mapped; nothing is decoded yet.
Init ==
    /\ \E p \in Params : mmap = File(p)
    /\ debug_assertions \in BOOLEAN
    /\ pc = "ident"
    /\ shi = 0
    /\ eidentview = <<>>
    /\ ehdr = <<>>
    /\ sh_entries = <<>>
    /\ shstrtab = <<>>
    /\ shentries = <<>>
    /\ strtab = <<>>
    /\ symtab = <<>>
    /\ dynstr = <<>>
    /\ dynsym = <<>>
    /\ result = Running
    /\ StrIdle
    /\ SymIdle
    /\ ViewIdle

\* The load ends: Ok(Self {..}), Err(e) or a panic.
Return(r) == result' = r /\ pc' = "done"

Idle ==
    /\ UNCHANGED strVars
    /\ UNCHANGED symVars
    /\ UNCHANGED viewVars
    /\ UNCHANGED <<mmap, debug_assertions>>

\* Elf::load, ctrl.rs 50-53: the identification block
Load_Ident ==
    /\ pc = "ident"
    /\ IF ~SliceOk(mmap, 0, SizeOfEIdent)
       THEN /\ Return(<<"Panic", "slice index">>)
            /\ UNCHANGED eidentview
       ELSE /\ eidentview' \in EIdent_into(EIdent(Slice(mmap, 0, SizeOfEIdent)))
            /\ pc' = "dispatch"
            /\ UNCHANGED result
    /\ UNCHANGED <<shi, ehdr, sh_entries, shstrtab, shentries, strtab, symtab, dynstr, dynsym>>
    /\ Idle

\* Elf::load, ctrl.rs 55-64: the dispatch on the class; load_32_from_mmap is todo!()
Load_Dispatch ==
    /\ pc = "dispatch"
    /\ IF eidentview.class = <<"Bit32">> THEN Return(<<"Panic", "not yet implemented">>)
       ELSE IF eidentview.class = <<"Bit64">> THEN pc' = "ehdr" /\ UNCHANGED result
       ELSE Return(<<"Err", <<"Unknown Elf class", EIClass_Debug(eidentview.class)>>>>)
    /\ UNCHANGED <<shi, eidentview, ehdr, sh_entries, shstrtab, shentries, strtab, symtab,
                   dynstr, dynsym>>
    /\ Idle

\* load_64_from_mmap, ctrl.rs 69-74: the file header
Load64_Ehdr ==
    /\ pc = "ehdr"
    /\ IF ~SliceOk(mmap, 0, SizeOfE64Hdr)
       THEN /\ Return(<<"Panic", "slice index">>)
            /\ UNCHANGED ehdr
       ELSE /\ ehdr' \in E64Hdr_into(E64Hdr(Slice(mmap, 0, SizeOfE64Hdr)))
            /\ pc' = "shtab"
            /\ UNCHANGED result
    /\ UNCHANGED <<shi, eidentview, sh_entries, shstrtab, shentries, strtab, symtab, dynstr,
                   dynsym>>
    /\ Idle

\* ctrl.rs 126-130: no section header table
Load64_NoSections ==
    /\ pc = "shtab"
    /\ ~HasSectionTable(ehdr)
    /\ shstrtab' = StrTab_empty
    /\ shentries' = <<>>
    /\ pc' = "strtab"
    /\ UNCHANGED <<shi, eidentview, ehdr, sh_entries, strtab, symtab, dynstr, dynsym, result>>
    /\ Idle

\* ctrl.rs 81-88: one round of the loop over the section header records
Load64_ShEntry ==
    /\ pc = "shtab"
    /\ HasSectionTable(ehdr)
    /\ shi < ehdr.section_hdr_ent_num
    /\ LET shoff == ehdr.section_hdr_offset
           entry_size == ehdr.section_hdr_ent_sz
           from == shoff + shi * entry_size
           end == shoff + (shi + 1) * entry_size
       IN  IF ~SliceOk(mmap, from, end)
           THEN Return(<<"Panic", "slice index">>) /\ UNCHANGED <<shi, sh_entries>>
           ELSE IF Deserialize(Slice(mmap, from, end), SizeOfE64Shdr)[1] = "Err"
           THEN /\ Return(Deserialize(Slice(mmap, from, end), SizeOfE64Shdr))
                /\ UNCHANGED <<shi, sh_entries>>
           ELSE /\ sh_entries' = Append(sh_entries, E64Shdr(Slice(mmap, from, end)))
                /\ shi' = shi + 1
                /\ UNCHANGED <<pc, result>>
    /\ UNCHANGED <<eidentview, ehdr, shstrtab, shentries, strtab, symtab, dynstr, dynsym>>
    /\ Idle

\* ctrl.rs 90-102: the section name string table
Load64_ShStrTab ==
    /\ pc = "shtab"
    /\ HasSectionTable(ehdr)
    /\ shi = ehdr.section_hdr_ent_num
    /\ LET idx == shstr_tab_idx(ehdr.section_str_tab_idx, sh_entries)
       IN  IF idx < 0 \/ idx >= Len(sh_entries)
           THEN Return(<<"Panic", "index out of bounds">>) /\ UNCHANGED <<shstrtab, shi>>
           ELSE LET sec_offset == sh_entries[idx + 1].offset
                    sec_size == sh_entries[idx + 1].size
                IN  IF ~SliceOk(mmap, sec_offset, sec_offset + sec_size)
                    THEN Return(<<"Panic", "slice index">>) /\ UNCHANGED <<shstrtab, shi>>
                    ELSE /\ shstrtab' =
                              StrTab_new(Slice(mmap, sec_offset, sec_offset + sec_size))
                         /\ pc' = "shview"
                         /\ shi' = 0
                         /\ UNCHANGED result
    /\ UNCHANGED <<eidentview, ehdr, sh_entries, shentries, strtab, symtab, dynstr, dynsym>>
    /\ Idle

\* ctrl.rs 105-123: one round of the loop that builds the section views
Load64_ShView ==
    /\ pc = "shview"
    /\ shi < Len(sh_entries)
    /\ \E ty \in SHType_from(sh_entries[shi + 1].ty) :
         LET view == SHdrView(sh_entries[shi + 1], ty, shstrtab)
         IN  IF view[1] = "Panic"
             THEN Return(view) /\ UNCHANGED <<shi, shentries>>
             ELSE /\ shentries' = Append(shentries, view[2])
                  /\ shi' = shi + 1
                  /\ pc' = IF shi + 1 = Len(sh_entries) THEN "strtab" ELSE "shview"
                  /\ UNCHANGED result
    /\ UNCHANGED <<eidentview, ehdr, sh_entries, shstrtab, strtab, symtab, dynstr, dynsym>>
    /\ Idle

\* ctrl.rs 134: .strtab
Load64_Strtab ==
    /\ pc = "strtab"
    /\ LET r == load_strtab_from_sh(shentries, DotStrtab, mmap)
       IN  IF r[1] = "Ok"
           THEN strtab' = r[2] /\ pc' = "symtab" /\ UNCHANGED result
           ELSE Return(r) /\ UNCHANGED strtab
    /\ UNCHANGED <<shi, eidentview, ehdr, sh_entries, shstrtab, shentries, symtab, dynstr,
                   dynsym>>
    /\ Idle

\* A .symtab stage that runs in the place of the .strtab stage, before any
\* string table is decoded.
Load64_Symtab_BeforeStrtab ==
    /\ pc = "strtab"
    /\ LET r == load_sym64tab_from_sh(shentries, DotSymtab, strtab, ehdr.ty, mmap,
                                      debug_assertions)
       IN  IF r[1] = "Ok"
           THEN symtab' = r[2] /\ pc' = "dynstr" /\ UNCHANGED result
           ELSE Return(r) /\ UNCHANGED symtab
    /\ UNCHANGED <<shi, eidentview, ehdr, sh_entries, shstrtab, shentries, strtab, dynstr,
                   dynsym>>
    /\ Idle

\* ctrl.rs 137-138: .symtab, named by .strtab
Load64_Symtab ==
    /\ pc = "symtab"
    /\ LET r == load_sym64tab_from_sh(shentries, DotSymtab, strtab, ehdr.ty, mmap,
                                      debug_assertions)
       IN  IF r[1] = "Ok"
           THEN symtab' = r[2] /\ pc' = "dynstr" /\ UNCHANGED result
           ELSE Return(r) /\ UNCHANGED symtab
    /\ UNCHANGED <<shi, eidentview, ehdr, sh_entries, shstrtab, shentries, strtab, dynstr,
                   dynsym>>
    /\ Idle

\* ctrl.rs 141: .dynstr
Load64_Dynstr ==
    /\ pc = "dynstr"
    /\ LET r == load_strtab_from_sh(shentries, DotDynstr, mmap)
       IN  IF r[1] = "Ok"
           THEN dynstr' = r[2] /\ pc' = "dynsym" /\ UNCHANGED result
           ELSE Return(r) /\ UNCHANGED dynstr
    /\ UNCHANGED <<shi, eidentview, ehdr, sh_entries, shstrtab, shentries, strtab, symtab,
                   dynsym>>
    /\ Idle

\* ctrl.rs 144-145: .dynsym, named by .dynstr
Load64_Dynsym ==
    /\ pc = "dynsym"
    /\ LET r == load_sym64tab_from_sh(shentries, DotDynsym, dynstr, ehdr.ty, mmap,
                                      debug_assertions)
       IN  IF r[1] = "Ok"
           THEN dynsym' = r[2] /\ pc' = "bss" /\ UNCHANGED result
           ELSE Return(r) /\ UNCHANGED dynsym
    /\ UNCHANGED <<shi, eidentview, ehdr, sh_entries, shstrtab, shentries, strtab, symtab,
                   dynstr>>
    /\ Idle

\* ctrl.rs 147-167: the slice of .bss, then Ok(Self {..})
Load64_Finish ==
    /\ pc = "bss"
    /\ LET sh == SHEntries_get(shentries, DotBss)
       IN  IF sh # None /\ ~SliceOk(mmap, sh[1].offset, sh[1].offset + sh[1].size)
           THEN Return(<<"Panic", "slice index">>)
           ELSE Return(<<"Ok">>)
    /\ UNCHANGED <<shi, eidentview, ehdr, sh_entries, shstrtab, shentries, strtab, symtab,
                   dynstr, dynsym>>
    /\ Idle

Next ==
    \/ Load_Ident
    \/ Load_Dispatch
    \/ Load64_Ehdr
    \/ Load64_NoSections
    \/ Load64_ShEntry
    \/ Load64_ShStrTab
    \/ Load64_ShView
    \/ Load64_Strtab
    \/ Load64_Symtab
    \/ Load64_Dynstr
    \/ Load64_Dynsym
    \/ Load64_Finish

Spec == Init /\ [][Next]_vars

----------------------------------------------------------------------------
(* Claims about StrTab *)

\* The byte offset at which entry k (1-based) of a str_vec result starts: the
\* entries lie one after the other from position 1, each followed by its NUL.
RECURSIVE EntryOffset(_, _)
EntryOffset(v, k) ==
    IF k = 1 THEN 1 ELSE EntryOffset(v, k - 1) + Len(v[k - 1]) + 1

\* C4: string table round trip: every entry str_vec produces, fetched again
\* with get at the byte offset where that entry starts in the buffer, is the
\* identical string.
C4_RoundTrip ==
    op = "str_vec" =>
        \A k \in 1..Len(vec) : StrTab_get(tab, EntryOffset(vec, k)) = Some(vec[k])

C4_Witness ==
    /\ op = "str_vec"
    /\ Len(vec) = 2
    /\ vec[1] # <<>>
    /\ vec[2] # <<>>
    /\ tab[1] # 0

\* The bytes of t from offset (0-based) up to, not including, position end.
Bytes(t, from, end) == [j \in 1..(end - from) |-> t[from + j]]

\* C5 as stated: get(offset) is absent when offset >= len; otherwise it is
\* present and is the bytes from offset up to, excluding, the first zero byte
\* at or after offset; get never modifies the buffer.
C5_Original ==
    [][op' = "get" =>
        /\ tab' = tab
        /\ IF arg' >= Len(tab) THEN got' = None
           ELSE \E z \in arg'..(Len(tab) - 1) :
                   /\ tab[z + 1] = 0
                   /\ \A j \in arg'..(z - 1) : tab[j + 1] # 0
                   /\ got' = Some(Bytes(tab, arg', z))]_vars

\* C5 amended: as C5, and when no zero byte lies at or after offset the
\* result is the bytes from offset to the end of the buffer.
C5_GetContract ==
    [][op' = "get" =>
        /\ tab' = tab
        /\ IF arg' >= Len(tab) THEN got' = None
           ELSE \E z \in arg'..Len(tab) :
                   /\ z < Len(tab) => tab[z + 1] = 0
                   /\ \A j \in arg'..(z - 1) : tab[j + 1] # 0
                   /\ got' = Some(Bytes(tab, arg', z))]_vars

C5_Witness ==
    /\ op = "get"
    /\ arg = 1
    /\ Len(tab) = 4
    /\ tab[4] = 0
    /\ got = Some(<<97, 98>>)

\* The non-empty runs of non-NUL bytes of t that start at position i or later,
\* each starting at position 1 or directly after a NUL, in offset order.
RECURSIVE RunsFrom(_, _, _)
RunsFrom(t, i, s) ==
    IF i >= Len(t) THEN (IF s = <<>> THEN <<>> ELSE <<s>>)
    ELSE IF t[i + 1] = 0
         THEN (IF s = <<>> THEN <<>> ELSE <<s>>) \o RunsFrom(t, i + 1, <<>>)
         ELSE RunsFrom(t, i + 1, Append(s, t[i + 1]))

NonEmpty(s) == s # <<>>

\* C6: str_vec returns, in offset order, every non-empty run of non-NUL bytes
\* that starts at position 1 or directly after a NUL, the last run of the
\* buffer included, and never the byte at position 0.
C6_FullSplit ==
    op = "str_vec" => SelectSeq(vec, NonEmpty) = RunsFrom(tab, 1, <<>>)

----------------------------------------------------------------------------
(* Claims about Elf::load.  They read the input from the bytes of the file:
   the fields of the header and of section header record k (from 0). *)

FileClass == mmap[5]

FileType == uint(mmap, 16, 2)

FileShoff == uint(mmap, 40, 8)

FileShentsize == uint(mmap, 58, 2)

FileShnum == uint(mmap, 60, 2)

FileShstrndx == uint(mmap, 62, 2)

RecName(k) == uint(mmap, FileShoff + 64 * k, 4)

RecOffset(k) == uint(mmap, FileShoff + 64 * k + 24, 8)

RecSize(k) == uint(mmap, FileShoff + 64 * k + 32, 8)

RecLink(k) == uint(mmap, FileShoff + 64 * k + 40, 4)

Ok == <<"Ok">>

\* The load has got past the section table stage.
PastSectionTable == pc \in {"strtab", "symtab", "dynstr", "dynsym", "bss"} \/ result = Ok

\* C1: a 64-bit file whose header has section_header_offset = 0 loads with
\* success, with an empty section sequence and an empty section name table,
\* whatever the entry size, entry count and string table index fields hold.
C1_NoSectionTable ==
    (pc = "done" /\ Len(mmap) >= 64 /\ FileClass = 2 /\ FileShoff = 0) =>
        /\ result = Ok
        /\ shentries = <<>>
        /\ shstrtab = <<>>

C1_Witness ==
    /\ pc = "done"
    /\ result = Ok
    /\ FileClass = 2
    /\ FileShoff = 0
    /\ FileShentsize = 65
    /\ FileShnum = 65535
    /\ FileShstrndx = 65535
    /\ shentries = <<>>

\* C2: in a loaded Object with a section header table, the name of every
\* section, the section name table's own section included, is the string that
\* get of the section name table returns at the name offset of its raw record.
C2_SectionNames ==
    (result = Ok /\ FileShoff # 0) =>
        \A k \in 1..Len(shentries) :
            StrTab_get(shstrtab, RecName(k - 1)) = Some(shentries[k].name)

C2_Witness ==
    /\ result = Ok
    /\ FileShoff # 0
    /\ Len(shentries) = 8
    /\ FileShstrndx = 2
    /\ shentries[3].name = <<46, 115, 104, 115, 116, 114, 116, 97, 98>>
    /\ shentries[2].name = <<46, 116, 101, 120, 116>>

\* The record the header names as the section name table: record 0's link
\* when the index field is the escape 0xffff, the index field otherwise.
NameTableRecord == IF FileShstrndx = 65535 THEN RecLink(0) ELSE FileShstrndx

\* C3: once the section name table is read, it is the bytes [offset, offset +
\* size) of record sections[0].link when the header's index field is 0xffff,
\* and of the record the field names otherwise.
C3_ExtendedIndex ==
    ((pc = "shview" \/ PastSectionTable) /\ Len(mmap) >= 64 /\ FileShoff # 0) =>
        /\ NameTableRecord < Len(sh_entries)
        /\ shstrtab = Slice(mmap, RecOffset(NameTableRecord),
                            RecOffset(NameTableRecord) + RecSize(NameTableRecord))

C3_Witness ==
    /\ result = Ok
    /\ FileShoff # 0
    /\ FileShstrndx = 65535
    /\ RecLink(0) = 2
    /\ shstrtab = NamesBlob

\* The raw record of symbol k (from 0) of the section of the given view.
RawSym(sh, k) == E64Sym(Slice(mmap, sh.offset + 24 * k, sh.offset + 24 * (k + 1)))

ValueByFileType(sh, table) ==
    \A k \in 1..Len(table) :
        LET raw == RawSym(sh, k - 1)
        IN  /\ FileType = 1 /\ raw.shndx = 65522 => table[k].value = <<"Alignment", raw.value>>
            /\ FileType = 1 /\ raw.shndx # 65522 =>
                    table[k].value = <<"SectionOffset", raw.value>>
            /\ FileType \in {2, 3} => table[k].value = <<"VirAddr", raw.value>>

\* C7: the value of every symbol of .symtab and .dynsym is told by the file's
\* type and the symbol's section index alone: in a Relocatable file Alignment
\* when the index is 0xfff2 and SectionOffset otherwise, in an Executable or
\* Shared file VirAddr; the number carried is the raw value field.
C7_SymbolValue ==
    /\ symtab # <<>> => ValueByFileType(SHEntries_get(shentries, DotSymtab)[1], symtab)
    /\ dynsym # <<>> => ValueByFileType(SHEntries_get(shentries, DotDynsym)[1], dynsym)

C7_Witness ==
    /\ result = Ok
    /\ FileType = 1
    /\ Len(symtab) = 2
    /\ symtab[1].value = <<"Alignment", 8>>
    /\ symtab[2].value = <<"SectionOffset", 9>>
    /\ symtab[2].ty = <<"Common">>

NoSectionNamed(name) == \A k \in 1..Len(shentries) : shentries[k].name # name

\* The section sequence with one more section, named .dynsym, at its end.
WithDynsym ==
    Append(shentries,
           [name |-> DotDynsym, ty |-> <<"INITARRAY">>, flags |-> <<>>, addr |-> 0,
            offset |-> 0, size |-> 24, link |-> 0, info |-> 0, addr_align |-> 8,
            ent_size |-> 24])

\* C9: with no section named .dynsym the .dynsym stage does not fail, yields
\* an empty table and leaves the .symtab table as it was decoded, which is the
\* table the same sections decode to with a .dynsym section added; with no
\* section named .symtab the .symtab stage does not fail and yields an empty
\* table; a loaded Object has an empty table for each section it lacks.
C9_MissingOptional ==
    [][/\ (pc = "dynsym" /\ NoSectionNamed(DotDynsym)) =>
              (pc' = "bss" /\ result' = Running /\ dynsym' = <<>> /\ symtab' = symtab)
       /\ (pc = "symtab" /\ NoSectionNamed(DotSymtab)) =>
              (pc' = "dynstr" /\ result' = Running /\ symtab' = <<>>)
       /\ (result' = Ok /\ NoSectionNamed(DotDynsym)) =>
              /\ dynsym' = <<>>
              /\ symtab' = symtab
              /\ load_sym64tab_from_sh(WithDynsym, DotSymtab, strtab, ehdr.ty, mmap,
                                       debug_assertions) = <<"Ok", symtab>>
       /\ (result' = Ok /\ NoSectionNamed(DotSymtab)) => symtab' = <<>>]_vars

C9_Witness ==
    /\ result = Ok
    /\ FileShoff # 0
    /\ NoSectionNamed(DotDynsym)
    /\ dynsym = <<>>
    /\ Len(symtab) = 2

\* What an Unknown Elf class error must hold to carry the class byte b: the
\* name of the variant whose discriminant b is, or the byte itself.
CarriesClass(payload, b) ==
    IF b \in DOMAIN EIClass THEN payload = <<EIClass[b]>> ELSE payload = <<"byte", b>>

\* C10: class 2 runs the 64-bit pipeline; class 1 fails and yields no Object;
\* every other class byte makes load return an Unknown Elf class error that
\* carries the byte, and no Object.
C10_ClassDispatch ==
    (pc = "done" /\ Len(mmap) >= 16) =>
        /\ FileClass = 2 => (Len(mmap) >= 64 => ehdr # <<>>)
        /\ FileClass = 1 => (result[1] = "Panic" /\ ehdr = <<>>)
        /\ FileClass \notin {1, 2} =>
              /\ result[1] = "Err"
              /\ result[2][1] = "Unknown Elf class"
              /\ CarriesClass(result[2][2], FileClass)
              /\ ehdr = <<>>

\* The index in shentries of the first section with the name, 0 when no
\* section has it.
FirstNamed(name) ==
    IF NoSectionNamed(name) THEN 0
    ELSE CHOOSE k \in 1..Len(shentries) :
            /\ shentries[k].name = name
            /\ \A j \in 1..(k - 1) : shentries[j].name # name

\* The stage of the symbol section with the name has been passed.
SymStagePassed(name) ==
    \/ result = Ok
    \/ pc = "bss"
    \/ name = DotSymtab /\ pc \in {"dynstr", "dynsym"}

\* C14: a symbol section (.symtab, .dynsym) that is present with a declared
\* entry size other than 24 stops the load: its stage is never passed, and no
\* Object is returned.
C14_EntrySizeFatal ==
    \A name \in {DotSymtab, DotDynsym} :
        (SymStagePassed(name) /\ ~NoSectionNamed(name)) =>
            shentries[FirstNamed(name)].ent_size = SizeOfE64Sym

\* The byte range [off, off + len) exceeds the file.
Exceeds(off, len) == off + len > Len(mmap)

\* The range of the section with the name exceeds the file.
SectionExceeds(name) ==
    /\ ~NoSectionNamed(name)
    /\ Exceeds(shentries[FirstNamed(name)].offset, shentries[FirstNamed(name)].size)

\* The first record of the symbol section with the name exceeds the file.
SymRecordExceeds(name) ==
    /\ ~NoSectionNamed(name)
    /\ shentries[FirstNamed(name)].ent_size = SizeOfE64Sym
    /\ shentries[FirstNamed(name)].size >= SizeOfE64Sym
    /\ Exceeds(shentries[FirstNamed(name)].offset, SizeOfE64Sym)

\* The byte range the stage the load is at is about to read exceeds the file.
RangeExceeded ==
    \/ pc = "ident" /\ Exceeds(0, SizeOfEIdent)
    \/ pc = "ehdr" /\ Exceeds(0, SizeOfE64Hdr)
    \/ /\ pc = "shtab"
       /\ ehdr.section_hdr_offset > 0
       /\ \/ /\ shi < ehdr.section_hdr_ent_num
             /\ Exceeds(ehdr.section_hdr_offset + shi * ehdr.section_hdr_ent_sz,
                        ehdr.section_hdr_ent_sz)
          \/ /\ shi = ehdr.section_hdr_ent_num
             /\ NameTableRecord < Len(sh_entries)
             /\ Exceeds(sh_entries[NameTableRecord + 1].offset,
                        sh_entries[NameTableRecord + 1].size)
    \/ pc = "strtab" /\ SectionExceeds(DotStrtab)
    \/ pc = "dynstr" /\ SectionExceeds(DotDynstr)
    \/ pc = "symtab" /\ SymRecordExceeds(DotSymtab)
    \/ pc = "dynsym" /\ SymRecordExceeds(DotDynsym)

\* C15: a stage whose byte range exceeds the file ends the load with an error
\* value returned to the caller: the step it takes sets the result to an Err,
\* not to an Object and not to a panic.
C15_BoundsReturned ==
    [][RangeExceeded => (pc' = "done" /\ result'[1] = "Err")]_vars

\* The stages of a load in the order of the code.
Stages ==
    <<"ident", "dispatch", "ehdr", "shtab", "shview", "strtab", "symtab", "dynstr",
      "dynsym", "bss", "done">>

Rank(stage) == CHOOSE k \in 1..Len(Stages) : Stages[k] = stage

\* The section table and the section name table are complete.
TableComplete ==
    IF ehdr.section_hdr_offset > 0
    THEN /\ Len(sh_entries) = ehdr.section_hdr_ent_num
         /\ Len(shentries) = ehdr.section_hdr_ent_num
    ELSE sh_entries = <<>> /\ shentries = <<>> /\ shstrtab = <<>>

\* C16: in every step of a load, the stage moves to the next one of the order
\* ident, file header, section table with its name table, .strtab, .symtab,
\* .dynstr, .dynsym (or the load ends); the identification block is decoded
\* first and alone; a section record is decoded only after the file header;
\* a string or symbol table is decoded only at its own stage, with the section
\* table and name table complete and no longer changing, so .symtab after
\* .strtab and .dynsym after .dynstr; a failure ends the load with nothing
\* decoded in that step, and nothing runs after the load has ended.
C16_StageOrder ==
    [][/\ pc # "done"
       /\ pc' # pc =>
            \/ pc' = "done"
            \/ Rank(pc') = Rank(pc) + 1
            \/ pc = "shtab" /\ pc' = "strtab" /\ ehdr.section_hdr_offset = 0
       /\ eidentview' # eidentview => pc = "ident"
       /\ pc = "ident" =>
            UNCHANGED <<ehdr, sh_entries, shstrtab, shentries, strtab, symtab, dynstr, dynsym>>
       /\ ehdr' # ehdr => (pc = "ehdr" /\ eidentview # <<>>)
       /\ sh_entries' # sh_entries => (pc = "shtab" /\ ehdr # <<>>)
       /\ shstrtab' # shstrtab =>
            (pc = "shtab" /\ Len(sh_entries) = ehdr.section_hdr_ent_num)
       /\ shentries' # shentries => pc = "shview"
       /\ pc \in {"strtab", "symtab", "dynstr", "dynsym"} =>
            (TableComplete /\ UNCHANGED <<sh_entries, shstrtab, shentries>>)
       /\ strtab' # strtab => pc = "strtab"
       /\ symtab' # symtab => pc = "symtab"
       /\ dynstr' # dynstr => pc = "dynstr"
       /\ dynsym' # dynsym => pc = "dynsym"
       /\ result' # result => pc' = "done"
       /\ result'[1] \in {"Err", "Panic"} =>
            UNCHANGED <<eidentview, ehdr, sh_entries, shstrtab, shentries, strtab, symtab,
                        dynstr, dynsym>>
      ]_vars

\* A load has run every stage and decoded all four tables.
C16_Witness ==
    /\ result = Ok
    /\ strtab # <<>> /\ symtab # <<>> /\ dynstr # <<>> /\ dynsym # <<>>
    /\ Len(shentries) = 8

\* C17: no load executes the unreachable branch of the match on the file
\* type: the value of a symbol is never interpreted with a file type other
\* than REL, EXEC or DYN, so no load ends in the panic of that branch.
C17_UnreachableBranch ==
    /\ result # <<"Panic", "unreachable">>
    /\ (symtab # <<>> \/ dynsym # <<>>) => ehdr.ty \in {<<"REL">>, <<"EXEC">>, <<"DYN">>}

\* The string of a string table at a byte offset: the bytes from the offset
\* up to the next NUL, the empty string for an offset outside the table.
NameAt(names, off) ==
    IF off >= Len(names) THEN <<>>
    ELSE LET end == CHOOSE j \in off..Len(names) :
                        /\ j = Len(names) \/ names[j + 1] = 0
                        /\ \A i \in off..(j - 1) : names[i + 1] # 0
         IN  Bytes(names, off, end)

\* The table holds one symbol per raw record of the section sh, in the order
\* of the records, as many as the declared entry size divides the section into.
OnePerRecord(sh, table, names) ==
    /\ sh.ent_size # 0 => Len(table) = sh.size \div sh.ent_size
    /\ \A k \in 1..Len(table) :
          LET rec == RawSym(sh, k - 1)
          IN  /\ table[k].size = rec.size
              /\ table[k].name = NameAt(names, rec.name)
              /\ table[k].value[2] = rec.value

\* C18: after a successful load, the table of a symbol section that is
\* present holds section.size / section.entry_size symbols, symbol k decoded
\* from the 24 bytes at section.offset + 24 * k, in the order of the records;
\* a name offset outside the paired string table gives the empty name.
C18_SymbolTableOrder ==
    result = Ok =>
        /\ ~NoSectionNamed(DotSymtab) =>
                OnePerRecord(shentries[FirstNamed(DotSymtab)], symtab, strtab)
        /\ ~NoSectionNamed(DotDynsym) =>
                OnePerRecord(shentries[FirstNamed(DotDynsym)], dynsym, dynstr)

\* The names a section is looked up by: those of the sections, those the load
\* asks for, and one no file has.
ProbeNames ==
    {shentries[k].name : k \in 1..Len(shentries)}
    \cup {DotStrtab, DotSymtab, DotDynstr, DotDynsym, DotBss, <<46, 120>>}

\* C19: after a successful load of a file with a section header table, the
\* section sequence has as many elements as the header's entry count; element
\* i has the address, offset, size, link, info, alignment and entry size of
\* the record at shoff + i * entry_size; and the lookup by name returns the
\* lowest-index section with the name, or nothing when no section has it.
C19_SectionSequence ==
    (result = Ok /\ FileShoff # 0) =>
        /\ Len(shentries) = FileShnum
        /\ \A i \in 0..(Len(shentries) - 1) :
              LET at == FileShoff + i * FileShentsize
                  sh == shentries[i + 1]
              IN  /\ sh.addr = uint(mmap, at + 16, 8)
                  /\ sh.offset = uint(mmap, at + 24, 8)
                  /\ sh.size = uint(mmap, at + 32, 8)
                  /\ sh.link = uint(mmap, at + 40, 4)
                  /\ sh.info = uint(mmap, at + 44, 4)
                  /\ sh.addr_align = uint(mmap, at + 48, 8)
                  /\ sh.ent_size = uint(mmap, at + 56, 8)
        /\ \A name \in ProbeNames :
              SHEntries_get(shentries, name) =
                  IF NoSectionNamed(name) THEN None
                  ELSE Some(shentries[FirstNamed(name)])

\* A loaded file in which two different sections have the same name.
C19_Witness ==
    /\ result = Ok
    /\ FileShoff # 0
    /\ \E j, k \in 1..Len(shentries) :
          j < k /\ shentries[j].name = shentries[k].name /\ shentries[j] # shentries[k]

----------------------------------------------------------------------------
(* SpecSym: the decode of the info and other bytes of a symbol record, as
   load_sym64tab_from_sh does it, on every pair of byte values *)

U8 == 0..255

InitSym ==
    /\ info \in U8
    /\ other \in U8
    /\ bind = <<>>
    /\ sty = <<>>
    /\ visi = <<>>
    /\ StrIdle
    /\ ViewIdle
    /\ LoadIdle

\* ctrl.rs 240-242: bind, ty and visi of one symbol
SymDecode ==
    /\ bind = <<>>
    /\ bind' = SymBinding_load_from_info(info)
    /\ sty' = SymType_load_from_info(info)
    /\ visi' = SymVisi_load_from_other(other)
    /\ UNCHANGED <<info, other>>
    /\ UNCHANGED strVars
    /\ UNCHANGED viewVars
    /\ UNCHANGED loadVars

NextSym == SymDecode

SpecSym == InitSym /\ [][NextSym]_vars

\* The 4-bit groups and the 2-bit group of a byte, bit by bit.
Bit(x, k) == (x \div (2 ^ k)) % 2

High4(x) == 8 * Bit(x, 7) + 4 * Bit(x, 6) + 2 * Bit(x, 5) + Bit(x, 4)

Low4(x) == 8 * Bit(x, 3) + 4 * Bit(x, 2) + 2 * Bit(x, 1) + Bit(x, 0)

Low2(x) == 2 * Bit(x, 1) + Bit(x, 0)

BindingTable ==
    [n \in 0..15 |->
        IF n = 0 THEN <<"Local">>
        ELSE IF n = 1 THEN <<"Global">>
        ELSE IF n = 2 THEN <<"Weak">>
        ELSE IF n \in {10, 11, 12} THEN <<"OS", n>>
        ELSE <<"Proc", n>>]

TypeTable ==
    [n \in 0..15 |->
        IF n <= 6
        THEN <<<<"NoType">>, <<"Object">>, <<"Func">>, <<"Section">>, <<"File">>,
               <<"Common">>, <<"TLS">>>>[n + 1]
        ELSE IF n \in {10, 11, 12} THEN <<"OS", n>>
        ELSE <<"Proc", n>>]

VisiTable == [n \in 0..3 |-> <<<<"Default">>, <<"Internal">>, <<"Hidden">>, <<"Protected">>>>[n + 1]]

\* C8: for all 256 values of info and of other the decode yields a value:
\* binding is the table entry of the top 4 bits of info, type the table entry
\* of its bottom 4 bits, visibility the table entry of the bottom 2 bits of
\* other; info = 0x12 is Global/Func and other = 0x02 is Hidden.
C8_SymFieldDecode ==
    bind # <<>> =>
        /\ bind = BindingTable[High4(info)]
        /\ sty = TypeTable[Low4(info)]
        /\ visi = VisiTable[Low2(other)]
        /\ info = 18 => bind = <<"Global">> /\ sty = <<"Func">>
        /\ other = 2 => visi = <<"Hidden">>

C8_Witness ==
    /\ info = 18
    /\ other = 2
    /\ bind = <<"Global">>
    /\ sty = <<"Func">>
    /\ visi = <<"Hidden">>


----------------------------------------------------------------------------
(* SpecView: the conversions of view.rs from a raw code, each called once on
   a code drawn from the codes below *)

\* Section type codes: the low codes one by one and the codes around the
\* bounds of the three ranges, as 4 little-endian bytes.
TypeCodes ==
    {<<b1, b23, b23, b4>> :
        b1 \in (0..20) \cup {255}, b23 \in {0, 255},
        b4 \in {0, 95, 96, 111, 112, 127, 128, 255}}

\* Section flag masks: every tested bit alone and together, and the bits under
\* the two masks, as 4 little-endian bytes.
FlagMasks ==
    {<<b1, b2, b3, b4>> :
        b1 \in {0, 1, 2, 4, 8, 16, 32, 64, 128, 255}, b2 \in {0, 1, 2, 4, 7, 8},
        b3 \in {0, 15, 16, 240}, b4 \in {0, 1, 15, 16, 240}}

\* Section indices: every u16.
U16 == 0..65535

InitView ==
    /\ \/ conv = "SHType" /\ code \in TypeCodes
       \/ conv = "SHFLAGS" /\ code \in FlagMasks
       \/ conv = "SID" /\ code \in U16
    /\ out = None
    /\ StrIdle
    /\ SymIdle
    /\ LoadIdle

ViewIdleRest == UNCHANGED <<conv, code>> /\ UNCHANGED strVars /\ UNCHANGED symVars /\ UNCHANGED loadVars

\* SHType::from(val)
SHType_From ==
    /\ conv = "SHType"
    /\ out = None
    /\ \E t \in SHType_from(code) : out' = Some(t)
    /\ ViewIdleRest

\* SHFLAGS::from(val)
SHFLAGS_From ==
    /\ conv = "SHFLAGS"
    /\ out = None
    /\ out' = Some(SHFLAGS_from(code))
    /\ ViewIdleRest

\* SID::from(val)
SID_From ==
    /\ conv = "SID"
    /\ out = None
    /\ out' = Some(SID_from(code))
    /\ ViewIdleRest

NextView ==
    \/ SHType_From
    \/ SHFLAGS_From
    \/ SID_From

SpecView == InitView /\ [][NextView]_vars

\* The section type codes of the format (gABI, sh_type) that SHType has a
\* variant for, with that variant.
SHT ==
    0 :> "NULL" @@ 1 :> "PROGBITS" @@ 2 :> "SYMtab" @@ 3 :> "STRtab" @@ 4 :> "RELA"
    @@ 5 :> "HASH" @@ 6 :> "DYNAMIC" @@ 7 :> "NOTE" @@ 8 :> "NOBITS" @@ 9 :> "REL"
    @@ 10 :> "SHLIB" @@ 14 :> "INITARRAY" @@ 15 :> "FINIARRAY"
    @@ 16 :> "PREINITARRAY" @@ 17 :> "GROUP" @@ 18 :> "SYMtabSHNDX"

\* C11: SHType::from maps a code of [0x6000_0000, 0x6fff_ffff] to SPECOS with
\* the code, of [0x7000_0000, 0x7fff_ffff] to SPECPROC with the code, of
\* [0x8000_0000, u32::MAX] to SPECUSER with the code; a code below 0x6000_0000
\* is not turned into one of these three, the result is a defined variant, and
\* it is a well-known variant of no other code than this one.
C11_SectionTypeMapping ==
    (conv = "SHType" /\ out # None) =>
        LET t == out[1]
            n == code[1] + 256 * code[2] + 65536 * code[3]
        IN  IF code[4] >= 128 THEN t = <<"SPECUSER", code>>
            ELSE IF code[4] >= 112 THEN t = <<"SPECPROC", code>>
            ELSE IF code[4] >= 96 THEN t = <<"SPECOS", code>>
            ELSE /\ t[1] \notin {"SPECOS", "SPECPROC", "SPECUSER", "?"}
                 /\ \A c \in DOMAIN SHT : t = <<SHT[c]>> => (code[4] = 0 /\ c = n)

\* The flag bits of the format with their tokens: the byte of the mask (1 the
\* lowest) and the bit of that byte.
FlagTable ==
    << <<1, 0, "Write">>, <<1, 1, "Alloc">>, <<1, 2, "ExecInstr">>, <<1, 4, "Merge">>,
       <<1, 5, "StringS">>, <<1, 6, "InfoLink">>, <<1, 7, "LinkOrder">>,
       <<2, 0, "OsNonconforming">>, <<2, 1, "Group">>, <<2, 2, "TLS">> >>

\* The tokens of a decoded SHFLAGS, as a set.
Tokens(flags) == {flags[k] : k \in 1..Len(flags)}

\* C12: the token set SHFLAGS::from returns holds each of the ten flag tokens
\* exactly when its bit of the mask is set, an OS token with a non-zero
\* residual exactly when mask & 0x0ff0_0000 is non-zero, and a Proc token with
\* a non-zero residual exactly when mask & 0xf000_0000 is non-zero.
C12_SectionFlagDecode ==
    (conv = "SHFLAGS" /\ out # None) =>
        LET toks == Tokens(out[1])
        IN  /\ \A k \in 1..Len(FlagTable) :
                 (<<FlagTable[k][3]>> \in toks)
                     <=> (Bit(code[FlagTable[k][1]], FlagTable[k][2]) = 1)
            /\ (\E t \in toks : t[1] = "OS" /\ t[2] # 0)
                     <=> (code[3] \div 16 # 0 \/ code[4] % 16 # 0)
            /\ (\E t \in toks : t[1] = "Proc" /\ t[2] # 0)
                     <=> (code[4] \div 16 # 0)

\* The section indices the processor (0xff00-0xff1f) and the operating system
\* (0xff20-0xff3f) reserve.
ProcReserved == 65280..65311

OSReserved == 65312..65343

\* C13: SID::from puts every 16-bit value in exactly one category: 0 is Undef,
\* 0xfff1 Abs, 0xfff2 Common, 0xffff XIndex, a value of the processor range is
\* Proc with the value, a value of the OS range is OS with the value, and
\* every other value, and no value of these, is Normal with the value.
C13_SectionIndexMapping ==
    (conv = "SID" /\ out # None) =>
        LET sid == out[1]
            special == {0, 65521, 65522, 65535} \cup ProcReserved \cup OSReserved
        IN  /\ sid[1] \in {"Undef", "Abs", "Common", "XIndex", "Proc", "OS", "Normal"}
            /\ (sid = <<"Undef">>) <=> (code = 0)
            /\ (sid = <<"Abs">>) <=> (code = 65521)
            /\ (sid = <<"Common">>) <=> (code = 65522)
            /\ (sid = <<"XIndex">>) <=> (code = 65535)
            /\ (sid = <<"Proc", code>>) <=> (code \in ProcReserved)
            /\ (sid = <<"OS", code>>) <=> (code \in OSReserved)
            /\ (sid = <<"Normal", code>>) <=> (code \notin special)
            /\ Len(sid) = IF sid[1] \in {"Proc", "OS", "Normal"} THEN 2 ELSE 1

\* The last value of the OS range has been converted.
C13_Witness == conv = "SID" /\ code = 65343 /\ out = Some(<<"OS", 65343>>)

====
